---- MODULE Spec2Model ----
(***************************************************************************)
(* Model of the SFTP file synchroniser (main.py, module/files.py).         *)
(*                                                                         *)
(* main() walks the terminal folders of the local tree; for each one it    *)
(* lists the matching remote folder, downloads the newest remote file if   *)
(* no entry of that name exists locally, and prunes every other regular    *)
(* file of the folder.  The SFTP adapters (module.ssh) are not part of the *)
(* sources; they are modelled by their contract.                           *)
(***************************************************************************)
EXTENDS Integers, Sequences, FiniteSets, TLC

\* ---------------------------------------------------------------- bounds
\* largest size (bytes) a remote descriptor reports
MaxSize == 2
\* longest remote listing
MaxRemote == 2

\* names a file can have inside a folder
Names == {"a", "b", "c"}
\* the local tree: directory 0 is directorio_local, its children are 1 and 2
Dirs == {0, 1, 2}
Subdirs(d) == IF d = 0 THEN {1, 2} ELSE {}
\* os.walk visits top-down
WalkOrder == <<0, 1, 2>>

VARIABLES
    entorno,                  \* what main() finds on disk at start-up
    pc,                       \* position of main()
    carpetas,                 \* result of listar_subcarpetas
    idx,                      \* position of the for loop in carpetas
    local,                    \* local[d][n]: entry named n of directory d
    remote,                   \* what the server lists for each folder
    nombre_fichero,           \* main()'s local variables of the pass
    tamano_bytes,
    total_descargados,
    total_bytes_descargados,
    total_eliminados,
    carpetas_con_error,
    paso,                     \* observation: what happened in the current pass
    hist,                     \* observation: adapter calls of the execution
    poda,                     \* observation: one call of eliminar_antiguos
    arbol,                    \* a directory tree given to listar_subcarpetas
    ruta,                     \* one computation of ruta_remota
    elegido                   \* one selection of the newest remote file

vars == <<entorno, pc, carpetas, idx, local, remote, nombre_fichero,
          tamano_bytes, total_descargados, total_bytes_descargados,
          total_eliminados, carpetas_con_error, paso, hist, poda,
          arbol, ruta, elegido>>

\* ------------------------------------------------------------ file system
Nada == [tipo |-> "nada", size |-> 0, hijos |-> {}]
Fichero(s) == [tipo |-> "fichero", size |-> s, hijos |-> {}]
Directorio(h) == [tipo |-> "dir", size |-> 0, hijos |-> h]

\* os.path.exists(os.path.join(carpeta, n))
Exists(cont, n) == cont[n].tipo # "nada"
\* os.path.isfile(os.path.join(carpeta, n))
IsFile(cont, n) == cont[n].tipo = "fichero"
\* the names os.listdir(carpeta) returns
ListDir(cont) == {n \in Names : Exists(cont, n)}
RegularFiles(cont) == {n \in Names : IsFile(cont, n)}

\* all orders in which os.listdir can return the set S
RECURSIVE Perms(_)
Perms(S) ==
    IF S = {} THEN {<<>>}
    ELSE UNION {{<<x>> \o p : p \in Perms(S \ {x})} : x \in S}

\* ----------------------------------------------------- module/files.py
\* listar_subcarpetas: the directories of the walk that have no child directory
listar_subcarpetas == SelectSeq(WalkOrder, LAMBDA d : Subdirs(d) = {})

\* a pruner that does not test os.path.isfile
DebeEliminarSinIsFile(cont, fichero, ultimo_fichero) ==
    Exists(cont, fichero) /\ fichero # ultimo_fichero

\* a pruner that forgets to spare the file to keep
DebeEliminarTodo(cont, fichero, ultimo_fichero) == IsFile(cont, fichero)

\* the condition under which eliminar_antiguos removes an entry
DebeEliminar(cont, fichero, ultimo_fichero) ==
    IsFile(cont, fichero) /\ fichero # ultimo_fichero

\* a loop that counts the file before removing it
RECURSIVE BucleEliminarCuentaAntes(_, _, _, _, _, _)
BucleEliminarCuentaAntes(cont, ultimo_fichero, orden, fallan, i, n) ==
    IF i > Len(orden)
    THEN [cont |-> cont, eliminados |-> n, error |-> FALSE]
    ELSE LET fichero == orden[i] IN
         IF IsFile(cont, fichero) /\ fichero # ultimo_fichero
         THEN IF fichero \in fallan
              THEN [cont |-> cont, eliminados |-> n + 1, error |-> TRUE]
              ELSE BucleEliminarCuentaAntes([cont EXCEPT ![fichero] = Nada],
                                 ultimo_fichero, orden, fallan, i + 1, n + 1)
         ELSE BucleEliminarCuentaAntes(cont, ultimo_fichero, orden, fallan, i + 1, n)

\* The loop of eliminar_antiguos over orden = os.listdir(carpeta), from
\* position i on, with n deletions so far.  fallan is the set of names whose
\* os.remove raises: the exception leaves the loop (the try encloses the for)
\* and the function returns the count reached.
RECURSIVE BucleEliminar(_, _, _, _, _, _)
BucleEliminar(cont, ultimo_fichero, orden, fallan, i, n) ==
    IF i > Len(orden)
    THEN [cont |-> cont, eliminados |-> n, error |-> FALSE]
    ELSE LET fichero == orden[i] IN
         IF DebeEliminar(cont, fichero, ultimo_fichero)
         THEN IF fichero \in fallan
              THEN [cont |-> cont, eliminados |-> n, error |-> TRUE]
              ELSE BucleEliminar([cont EXCEPT ![fichero] = Nada],
                                 ultimo_fichero, orden, fallan, i + 1, n + 1)
         ELSE BucleEliminar(cont, ultimo_fichero, orden, fallan, i + 1, n)

\* eliminar_antiguos(carpeta, ultimo_fichero); listdir_ok = FALSE when
\* os.listdir itself raises (caught by the same except).
eliminar_antiguos(cont, ultimo_fichero, orden, fallan, listdir_ok) ==
    IF listdir_ok
    THEN BucleEliminar(cont, ultimo_fichero, orden, fallan, 1, 0)
    ELSE [cont |-> cont, eliminados |-> 0, error |-> TRUE]

\* ------------------------------------------------------- remote adapters
\* the sequences of k different names
NombresDistintos(k) ==
    {ns \in [1..k -> Names] : \A i, j \in 1..k : i # j => ns[i] # ns[j]}

\* listings as ListarArchivosSFTPconAtributos returns them: descriptors
\* {nombre, size, mtime}, at most one per name, sorted newest first (the
\* modification times are Len, ..., 1)
Listados ==
    UNION {{[i \in 1..k |-> [nombre |-> ns[i], size |-> zs[i], mtime |-> k - i + 1]] :
               ns \in NombresDistintos(k), zs \in [1..k -> 1..MaxSize]} :
           k \in 0..MaxRemote}

\* remote[f] = Libre: the server content of folder f is unconstrained
Libre == <<[nombre |-> "libre", size |-> 0, mtime |-> 0]>>

\* what a listing call can return for folder f
ResultadosListar(f) ==
    {[ok |-> FALSE, archivos |-> <<>>]} \cup
    {[ok |-> TRUE, archivos |-> l] :
        l \in (IF remote[f] = Libre THEN Listados ELSE {remote[f]})}

\* DescargarArchivoSFTP: on success the file exists at destino_local with the
\* remote size; on failure nothing is written
DescargarArchivoSFTP(cont, nombre, size, ok) ==
    IF ok THEN [cont EXCEPT ![nombre] = Fichero(size)] ELSE cont

\* ------------------------------------------------------------- main.py
Nulo == "nulo"
\* no descriptor: None
Ninguno == [nombre |-> Nulo, size |-> 0, mtime |-> 0]

PasoInicial(f) ==
    [carpeta |-> f, ini |-> local[f],
     err0 |-> carpetas_con_error, desc0 |-> total_descargados,
     bytes0 |-> total_bytes_descargados, elim0 |-> total_eliminados,
     listado |-> "no", descarga |-> "no", podado |-> FALSE,
     borrado_fallido |-> FALSE, excepcion |-> FALSE,
     reciente |-> [nombre |-> Nulo, size |-> 0], conservar |-> Nulo]

PasoVacio ==
    [carpeta |-> 0, ini |-> [n \in Names |-> Nada],
     err0 |-> 0, desc0 |-> 0, bytes0 |-> 0, elim0 |-> 0,
     listado |-> "no", descarga |-> "no", podado |-> FALSE,
     borrado_fallido |-> FALSE, excepcion |-> FALSE,
     reciente |-> [nombre |-> Nulo, size |-> 0], conservar |-> Nulo]

HistInicial ==
    [listar |-> [d \in Dirs |-> 0], descargar |-> [d \in Dirs |-> 0],
     podar |-> [d \in Dirs |-> 0], dl_ok |-> 0, dl_bytes |-> 0,
     borrados |-> 0, visitadas |-> <<>>, resumenes |-> 0, ini |-> local]

PodaVacia ==
    [carpeta |-> 0, conservar |-> Nulo, orden |-> <<>>, fallan |-> {},
     listdir_ok |-> TRUE, antes |-> [d \in Dirs |-> [n \in Names |-> Nada]],
     eliminados |-> 0]

\* values of the variables of the function-level specifications while
\* main() runs
ArbolVacio == [n |-> 0, padre |-> <<>>, orden |-> <<>>, ficheros |-> {}]
RutaVacia ==
    [sep |-> "/", base_dir |-> <<>>, relativa |-> <<>>,
     config |-> [presente |-> FALSE, valor |-> <<>>],
     carpeta_local |-> <<>>, ruta_remota |-> <<>>]
EleccionVacia ==
    [archivos |-> <<>>, falla |-> FALSE, primero |-> Ninguno, maximo |-> Ninguno]

ContenidosTerminales == [Names -> {Nada, Fichero(1)}]

TypeOK ==
    /\ pc \in {"setup", "discover", "loop", "map", "list", "exists",
               "download", "prune", "summary", "end", "raised", "returned",
               "pruner", "pruned"}
    /\ idx \in 0..Len(carpetas)
    /\ total_descargados \in Nat
    /\ total_bytes_descargados \in Nat
    /\ total_eliminados \in Nat
    /\ carpetas_con_error \in Nat

InitComun ==
    /\ pc = "setup"
    /\ carpetas = <<>>
    /\ idx = 0
    /\ nombre_fichero = Nulo
    /\ tamano_bytes = 0
    /\ total_descargados = 0
    /\ total_bytes_descargados = 0
    /\ total_eliminados = 0
    /\ carpetas_con_error = 0
    /\ paso = PasoVacio
    /\ poda = PodaVacia
    /\ arbol = ArbolVacio
    /\ ruta = RutaVacia
    /\ elegido = EleccionVacia

Init ==
    /\ InitComun
    /\ entorno \in [config : BOOLEAN, cred : BOOLEAN, base : BOOLEAN]
    /\ local \in {l \in [Dirs -> ContenidosTerminales] : l[0] = [n \in Names |-> Nada]}
    /\ remote = [d \in Dirs |-> Libre]
    /\ hist = HistInicial

\* a start-up that does not validate directorio_local
TrasSetupSinValidar(e) ==
    IF ~e.config \/ ~e.cred THEN "raised" ELSE "discover"

\* lines 81-84: a missing file raises FileNotFoundError out of main();
\* lines 94-97: an invalid directorio_local logs an error and returns
TrasSetup(e) ==
    IF ~e.config \/ ~e.cred THEN "raised"
    ELSE IF ~e.base THEN "returned"
    ELSE "discover"

\* lines 75-97: configuration files and base directory
Setup ==
    /\ pc = "setup"
    /\ pc' = TrasSetup(entorno)
    /\ UNCHANGED <<entorno, carpetas, idx, local, remote, nombre_fichero,
                   tamano_bytes, total_descargados, total_bytes_descargados,
                   total_eliminados, carpetas_con_error, paso, hist, poda,
                   arbol, ruta, elegido>>

\* lines 100-107
Discover ==
    /\ pc = "discover"
    /\ carpetas' = listar_subcarpetas
    /\ idx' = 0
    /\ total_descargados' = 0
    /\ total_bytes_descargados' = 0
    /\ total_eliminados' = 0
    /\ carpetas_con_error' = 0
    /\ pc' = "loop"
    /\ UNCHANGED <<entorno, local, remote, nombre_fichero, tamano_bytes,
                   paso, hist, poda,
                   arbol, ruta, elegido>>

\* a main() that ends after the loop
FinSinResumen == "end"

\* line 162: the statement after the for loop is the summary
FinDelBucle == "summary"

\* line 110: the for loop takes the next folder, or ends
NextFolder ==
    /\ pc = "loop"
    /\ IF idx < Len(carpetas)
       THEN /\ idx' = idx + 1
            /\ pc' = "map"
            /\ paso' = PasoInicial(carpetas[idx + 1])
       ELSE /\ pc' = FinDelBucle
            /\ UNCHANGED <<idx, paso>>
    /\ UNCHANGED <<entorno, carpetas, local, remote, nombre_fichero,
                   tamano_bytes, total_descargados, total_bytes_descargados,
                   total_eliminados, carpetas_con_error, hist, poda,
                   arbol, ruta, elegido>>

carpeta_local == carpetas[idx]

\* an except clause that forgets the counter
ErrorDeExcepcionSinContar(errores) == errores
\* an except clause that counts the folder twice
ErrorDeExcepcionDoble(errores) == errores + 2
\* a loop without the try: the exception ends main()
TrasExcepcionPropaga == "raised"
\* an except clause after which the pass goes on with the pruning
TrasExcepcionPoda == "prune"
\* an except clause that sends the pass back to the listing
TrasExcepcionReintenta == "list"

\* lines 158-160: the except clause counts one folder error and the for
\* loop goes on with the next folder
ErrorDeExcepcion(errores) == errores + 1
TrasExcepcion == "loop"

\* the pass of carpeta_local is over: control is back at the for statement
Visitada(h) == [h EXCEPT !.visitadas = Append(@, carpeta_local)]

\* lines 113-117: remote path of the folder; os.path.relpath can raise
MapPath ==
    /\ pc = "map"
    /\ \/ /\ pc' = "list"
          /\ UNCHANGED <<carpetas_con_error, paso, hist>>
       \/ \* except Exception (lines 158-160)
          /\ carpetas_con_error' = ErrorDeExcepcion(carpetas_con_error)
          /\ paso' = [paso EXCEPT !.excepcion = TRUE]
          /\ hist' = Visitada(hist)
          /\ pc' = TrasExcepcion
    /\ UNCHANGED <<entorno, carpetas, idx, local, remote, nombre_fichero,
                   tamano_bytes, total_descargados, total_bytes_descargados,
                   total_eliminados, poda,
                   arbol, ruta, elegido>>

\* a selection that takes the last descriptor of the listing
ArchivoMasAntiguo(archivos) == archivos[Len(archivos)]

\* line 130: the listing is sorted newest first
ArchivoReciente(archivos) == archivos[1]

\* name and size of the descriptor with the greatest modification time
\* (observation only)
MasNuevo(archivos) ==
    LET d == CHOOSE x \in {archivos[i] : i \in 1..Len(archivos)} :
                 \A j \in 1..Len(archivos) : x.mtime >= archivos[j].mtime
    IN [nombre |-> d.nombre, size |-> d.size]

\* a main() that does not count the failed listing
ErrorDeListadoSinContar(errores, ok) == errores

\* line 122: a listing that is not ok counts one folder error
ErrorDeListado(errores, ok) == IF ok THEN errores ELSE errores + 1

\* a main() that prunes the folder whose remote folder is empty
TrasVacioPoda == "prune"

\* lines 125-127: an empty listing is logged and the loop continues
TrasVacio == "loop"

\* lines 119-133: list the remote folder and select the newest file
Listar ==
    /\ pc = "list"
    /\ \/ \E r \in ResultadosListar(carpeta_local) :
            /\ carpetas_con_error' = ErrorDeListado(carpetas_con_error, r.ok)
            /\ IF ~r.ok
               THEN /\ paso' = [paso EXCEPT !.listado = "fallo"]
                    /\ hist' = Visitada([hist EXCEPT !.listar[carpeta_local] = @ + 1])
                    /\ pc' = "loop"
                    /\ UNCHANGED <<nombre_fichero, tamano_bytes>>
               ELSE IF r.archivos = <<>>
               THEN /\ paso' = [paso EXCEPT !.listado = "vacio"]
                    /\ hist' = Visitada([hist EXCEPT !.listar[carpeta_local] = @ + 1])
                    /\ pc' = TrasVacio
                    /\ UNCHANGED <<nombre_fichero, tamano_bytes>>
               ELSE /\ nombre_fichero' = ArchivoReciente(r.archivos).nombre
                    /\ tamano_bytes' = ArchivoReciente(r.archivos).size
                    /\ paso' = [paso EXCEPT !.listado = "ok",
                                            !.reciente = MasNuevo(r.archivos)]
                    /\ hist' = [hist EXCEPT !.listar[carpeta_local] = @ + 1]
                    /\ pc' = "exists"
       \/ \* the adapter raises: except Exception (lines 158-160)
          /\ carpetas_con_error' = ErrorDeExcepcion(carpetas_con_error)
          /\ paso' = [paso EXCEPT !.excepcion = TRUE]
          /\ hist' = Visitada([hist EXCEPT !.listar[carpeta_local] = @ + 1])
          /\ pc' = TrasExcepcion
          /\ UNCHANGED <<nombre_fichero, tamano_bytes>>
    /\ UNCHANGED <<entorno, carpetas, idx, local, remote,
                   total_descargados, total_bytes_descargados,
                   total_eliminados, poda,
                   arbol, ruta, elegido>>

\* a main() that fetches again when the local size differs from the remote
YaExisteMismoTamano(cont, nombre) ==
    Exists(cont, nombre) /\ cont[nombre].size = tamano_bytes

\* line 137: os.path.exists(destino_local)
YaExiste(cont, nombre) == Exists(cont, nombre)

\* lines 136-139: is there a local entry with the name of the newest file?
ExistsLocal ==
    /\ pc = "exists"
    /\ IF YaExiste(local[carpeta_local], nombre_fichero)
       THEN /\ paso' = [paso EXCEPT !.descarga = "omitida"]
            /\ pc' = "prune"
       ELSE /\ pc' = "download"
            /\ UNCHANGED paso
    /\ UNCHANGED <<entorno, carpetas, idx, local, remote, nombre_fichero,
                   tamano_bytes, total_descargados, total_bytes_descargados,
                   total_eliminados, carpetas_con_error, hist, poda,
                   arbol, ruta, elegido>>

\* a main() that counts every download attempt
ContarDescargaSiempre(total, descargado) == total + 1

\* lines 143-145
ContarDescarga(total, descargado) == IF descargado THEN total + 1 ELSE total
ContarBytes(total, descargado, tamano) ==
    IF descargado THEN total + tamano ELSE total

\* a main() that skips the pruning when the download failed
TrasDescargaSinPoda(descargado) == IF descargado THEN "prune" ELSE "loop"

\* lines 147-151: after the download, failed or not, comes the pruning
TrasDescarga(descargado) == "prune"

\* lines 140-148: download the newest file
Descargar ==
    /\ pc = "download"
    /\ \/ \E descargado \in BOOLEAN :
            /\ local' = [local EXCEPT ![carpeta_local] =
                   DescargarArchivoSFTP(@, nombre_fichero, paso.reciente.size,
                                        descargado)]
            /\ total_descargados' = ContarDescarga(total_descargados, descargado)
            /\ total_bytes_descargados' =
                   ContarBytes(total_bytes_descargados, descargado, tamano_bytes)
            /\ paso' = [paso EXCEPT !.descarga = IF descargado THEN "ok" ELSE "fallo"]
            /\ hist' = [hist EXCEPT
                   !.descargar[carpeta_local] = @ + 1,
                   !.dl_ok = IF descargado THEN @ + 1 ELSE @,
                   !.dl_bytes = IF descargado THEN @ + paso.reciente.size ELSE @]
            /\ pc' = TrasDescarga(descargado)
            /\ UNCHANGED carpetas_con_error
       \/ \* the adapter raises: except Exception (lines 158-160)
          /\ carpetas_con_error' = ErrorDeExcepcion(carpetas_con_error)
          /\ paso' = [paso EXCEPT !.excepcion = TRUE]
          /\ hist' = Visitada([hist EXCEPT !.descargar[carpeta_local] = @ + 1])
          /\ pc' = TrasExcepcion
          /\ UNCHANGED <<local, total_descargados, total_bytes_descargados>>
    /\ UNCHANGED <<entorno, carpetas, idx, remote, nombre_fichero,
                   tamano_bytes, total_eliminados, poda,
                   arbol, ruta, elegido>>

\* lines 150-156: prune the folder, keeping nombre_fichero
Podar ==
    /\ pc = "prune"
    /\ \E orden \in Perms(ListDir(local[carpeta_local])),
          fallan \in SUBSET Names, listdir_ok \in BOOLEAN :
         LET r == eliminar_antiguos(local[carpeta_local], nombre_fichero,
                                    orden, fallan, listdir_ok)
         IN /\ local' = [local EXCEPT ![carpeta_local] = r.cont]
            /\ total_eliminados' = total_eliminados + r.eliminados
            /\ paso' = [paso EXCEPT !.podado = TRUE,
                                    !.conservar = nombre_fichero,
                                    !.borrado_fallido = r.error]
            /\ hist' = Visitada([hist EXCEPT
                   !.podar[carpeta_local] = @ + 1,
                   !.borrados = @ + Cardinality(RegularFiles(local[carpeta_local]))
                                  - Cardinality(RegularFiles(r.cont))])
    /\ pc' = "loop"
    /\ UNCHANGED <<entorno, carpetas, idx, remote, nombre_fichero,
                   tamano_bytes, total_descargados, total_bytes_descargados,
                   carpetas_con_error, poda,
                   arbol, ruta, elegido>>

\* lines 162-172: the summary of the run
Resumen ==
    /\ pc = "summary"
    /\ hist' = [hist EXCEPT !.resumenes = @ + 1]
    /\ pc' = "end"
    /\ UNCHANGED <<entorno, carpetas, idx, local, remote, nombre_fichero,
                   tamano_bytes, total_descargados, total_bytes_descargados,
                   total_eliminados, carpetas_con_error, paso, poda,
                   arbol, ruta, elegido>>

Next ==
    \/ Setup
    \/ Discover
    \/ NextFolder
    \/ MapPath
    \/ Listar
    \/ ExistsLocal
    \/ Descargar
    \/ Podar
    \/ Resumen

Spec == Init /\ [][Next]_vars

\* ------------------------------------------- the execution under fairness
\* main() is sequential code: whenever a step is possible it is taken
\* (both folders start with the same content)
InitVivo ==
    /\ InitComun
    /\ entorno \in [config : BOOLEAN, cred : BOOLEAN, base : BOOLEAN]
    /\ local \in {[d \in Dirs |-> IF d = 0 THEN [n \in Names |-> Nada] ELSE c] :
                    c \in ContenidosTerminales}
    /\ remote = [d \in Dirs |-> Libre]
    /\ hist = HistInicial

SpecVivo == InitVivo /\ [][Next]_vars /\ WF_vars(Next)

\* ------------------------------------- an execution against a known server
\* the newest file of the listing is the only entry of the folder
Estable(cont, listado) ==
    /\ listado # <<>>
    /\ RegularFiles(cont) = {listado[1].nombre}
    /\ ListDir(cont) = {listado[1].nombre}

\* The server content is fixed (it lists the same files for both folders)
\* and every listing that succeeds returns it.  The two local folders start
\* alike, in any state, among them the states a previous execution against
\* the same server leaves behind.
InitServidorFijo ==
    /\ InitComun
    /\ entorno = [config |-> TRUE, cred |-> TRUE, base |-> TRUE]
    /\ remote \in {[d \in Dirs |-> l] : l \in Listados}
    /\ local \in {[d \in Dirs |-> IF d = 0 THEN [n \in Names |-> Nada] ELSE c] :
                    c \in ContenidosTerminales}
    /\ hist = HistInicial

SpecServidorFijo == InitServidorFijo /\ [][Next]_vars

\* ------------------------------------------- eliminar_antiguos on its own
\* any folder content: files, subdirectories with or without files in them
ContenidosCualesquiera ==
    [Names -> {Nada, Fichero(1), Directorio({}), Directorio({"a"})}]

InitPoda ==
    /\ pc = "pruner"
    /\ entorno = [config |-> TRUE, cred |-> TRUE, base |-> TRUE]
    /\ carpetas = <<>>
    /\ idx = 0
    /\ nombre_fichero = Nulo
    /\ tamano_bytes = 0
    /\ total_descargados = 0
    /\ total_bytes_descargados = 0
    /\ total_eliminados = 0
    /\ carpetas_con_error = 0
    /\ paso = PasoVacio
    /\ poda = PodaVacia
    /\ arbol = ArbolVacio
    /\ ruta = RutaVacia
    /\ elegido = EleccionVacia
    /\ remote = [d \in Dirs |-> Libre]
    /\ local \in {l \in [Dirs -> ContenidosCualesquiera] :
                    /\ l[0] = [n \in Names |-> Nada]
                    /\ l[2] \in {[n \in Names |-> Nada],
                                  [n \in Names |-> IF n = "a" THEN Fichero(1) ELSE Nada]}}
    /\ hist = HistInicial

\* one call eliminar_antiguos(carpeta, ultimo_fichero)
PodarSolo ==
    /\ pc = "pruner"
    /\ \E carpeta \in Dirs \ {0}, ultimo_fichero \in Names :
       \E orden \in Perms(ListDir(local[carpeta])),
          fallan \in SUBSET Names, listdir_ok \in BOOLEAN :
         LET r == eliminar_antiguos(local[carpeta], ultimo_fichero,
                                    orden, fallan, listdir_ok)
         IN /\ local' = [local EXCEPT ![carpeta] = r.cont]
            /\ poda' = [carpeta |-> carpeta, conservar |-> ultimo_fichero,
                        orden |-> orden, fallan |-> fallan,
                        listdir_ok |-> listdir_ok, antes |-> local,
                        eliminados |-> r.eliminados]
    /\ pc' = "pruned"
    /\ UNCHANGED <<entorno, carpetas, idx, remote, nombre_fichero,
                   tamano_bytes, total_descargados, total_bytes_descargados,
                   total_eliminados, carpetas_con_error, paso, hist,
                   arbol, ruta, elegido>>

PruneSpec == InitPoda /\ [][PodarSolo]_vars

\* ------------------------------------------ listar_subcarpetas on its own
\* most directories a tree has below its root
MaxNodos == 3

\* main() does not run in the specifications of single functions
SinMain ==
    /\ entorno = [config |-> TRUE, cred |-> TRUE, base |-> TRUE]
    /\ idx = 0
    /\ local = [d \in Dirs |-> [n \in Names |-> Nada]]
    /\ remote = [d \in Dirs |-> Libre]
    /\ nombre_fichero = Nulo
    /\ tamano_bytes = 0
    /\ total_descargados = 0
    /\ total_bytes_descargados = 0
    /\ total_eliminados = 0
    /\ carpetas_con_error = 0
    /\ paso = PasoVacio
    /\ hist = HistInicial
    /\ poda = PodaVacia

\* The trees with root 0 and directories 1..n below it: padre[c] is the
\* parent of c.  orden is the order in which os.scandir returns directory
\* names (the children of a directory are walked in that order); ficheros
\* is the set of directories that hold files.
Arboles ==
    UNION {{[n |-> n, padre |-> p, orden |-> o, ficheros |-> f] :
               p \in {q \in [1..n -> 0..n] : \A c \in 1..n : q[c] < c},
               o \in Perms(1..n),
               f \in SUBSET (0..n)} :
           n \in 0..MaxNodos}

\* the dirs of the triple os.walk yields for directory d, as a set and in
\* the order of the walk
HijosDe(a, d) == {c \in 1..a.n : a.padre[c] = d}
HijosEnOrden(a, d) == SelectSeq(a.orden, LAMBDA c : a.padre[c] = d)

\* os.walk(base_path), top-down: a directory, then the walk of each of its
\* child directories
RECURSIVE Walk(_, _)
RECURSIVE WalkHijos(_, _, _)
Walk(a, d) == <<d>> \o WalkHijos(a, HijosEnOrden(a, d), 1)
WalkHijos(a, hs, i) ==
    IF i > Len(hs) THEN <<>>
    ELSE Walk(a, hs[i]) \o WalkHijos(a, hs, i + 1)

\* a test that also wants the folder to hold files
EsFinalConFicheros(dirs, files) == dirs = {} /\ files

\* files.py 45: if not dirs
EsFinal(dirs, files) == dirs = {}

\* files.py 43-47: the roots of the walk that pass the test, in walk order
ListarSubcarpetas(a) ==
    SelectSeq(Walk(a, 0), LAMBDA d : EsFinal(HijosDe(a, d), d \in a.ficheros))

InitCaminar ==
    /\ SinMain
    /\ pc = "walk"
    /\ carpetas = <<>>
    /\ arbol \in Arboles
    /\ ruta = RutaVacia
    /\ elegido = EleccionVacia

\* one call listar_subcarpetas(base_path)
Caminar ==
    /\ pc = "walk"
    /\ carpetas' = ListarSubcarpetas(arbol)
    /\ pc' = "walked"
    /\ UNCHANGED <<entorno, idx, local, remote, nombre_fichero, tamano_bytes,
                   total_descargados, total_bytes_descargados,
                   total_eliminados, carpetas_con_error, paso, hist, poda,
                   arbol, ruta, elegido>>

WalkSpec == InitCaminar /\ [][Caminar]_vars

\* ----------------------------------------------- ruta_remota on its own
\* A path is the sequence of its tokens: separators ("/" and "\\") and
\* names.  sep is os.sep of the host ("/" on POSIX, "\\" on Windows, where
\* "/" is a separator too).
\* deepest folder below directorio_local
MaxProf == 2
NombresCarpeta == {"b", "c"}

EsSep(t, sep) == t = sep \/ (sep = "\\" /\ t = "/")

\* the components of a path
Partir(p, sep) == SelectSeq(p, LAMBDA t : ~EsSep(t, sep) /\ t # ".")

\* sep.join(comps)
RECURSIVE Juntar(_, _)
Juntar(comps, sep) ==
    IF comps = <<>> THEN <<>>
    ELSE IF Len(comps) = 1 THEN comps
    ELSE <<comps[1], sep>> \o Juntar(Tail(comps), sep)

\* os.path.normpath: one separator between components, in the convention
\* of the host, and none at the end
normpath(p, sep) ==
    LET raiz == IF p # <<>> /\ EsSep(p[1], sep) THEN <<sep>> ELSE <<>>
        r == raiz \o Juntar(Partir(p, sep), sep)
    IN IF r = <<>> THEN <<".">> ELSE r

\* length of the common prefix of two component lists
RECURSIVE PrefijoComun(_, _)
PrefijoComun(p, q) ==
    IF p = <<>> \/ q = <<>> \/ p[1] # q[1] THEN 0
    ELSE 1 + PrefijoComun(Tail(p), Tail(q))

\* os.path.relpath(path, start)
relpath(path, start, sep) ==
    LET pl == Partir(path, sep)
        sl == Partir(start, sep)
        i == PrefijoComun(pl, sl)
        rl == [k \in 1..(Len(sl) - i) |-> ".."] \o SubSeq(pl, i + 1, Len(pl))
    IN IF rl = <<>> THEN <<".">> ELSE Juntar(rl, sep)

\* os.path.join(a, b)
join(a, b, sep) ==
    IF b # <<>> /\ EsSep(b[1], sep) THEN b
    ELSE IF a = <<>> \/ EsSep(a[Len(a)], sep) THEN a \o b
    ELSE a \o <<sep>> \o b

\* a mapping that leaves the separators of the host
replaceNada(p) == p

\* str.replace("\\", "/")
replace(p) == [k \in 1..Len(p) |-> IF p[k] = "\\" THEN "/" ELSE p[k]]

\* config.get("directorio_remoto", "/")
ConfigGet(c, defecto) == IF c.presente THEN c.valor ELSE defecto

\* main.py 113-115
RutaRemota(carpeta, base_dir, config, sep) ==
    LET base_dir_normalizado == normpath(base_dir, sep)
        relativa == relpath(carpeta, base_dir_normalizado, sep)
    IN replace(join(ConfigGet(config, <<"/">>), relativa, sep))

\* the path os.walk(base_dir) gives to the folder found by descending
\* through the names of rel: base_dir itself, then os.path.join of the
\* parent path and the name
RECURSIVE CarpetaDeWalk(_, _, _)
CarpetaDeWalk(top, rel, sep) ==
    IF rel = <<>> THEN top
    ELSE CarpetaDeWalk(join(top, <<rel[1]>>, sep), Tail(rel), sep)

\* folders below directorio_local, by their names from it down
Relativas == UNION {[1..k -> NombresCarpeta] : k \in 0..MaxProf}

\* values of directorio_remoto: key absent, "/", "/r", "/r/"
Remotos ==
    {[presente |-> FALSE, valor |-> <<>>],
     [presente |-> TRUE, valor |-> <<"/">>],
     [presente |-> TRUE, valor |-> <<"/", "r">>],
     [presente |-> TRUE, valor |-> <<"/", "r", "/">>]}

\* directorio_local is /a, written with the separator s, with or without a
\* trailing separator; on Windows the configuration can use either separator
InitRuta ==
    /\ SinMain
    /\ pc = "path"
    /\ carpetas = <<>>
    /\ arbol = ArbolVacio
    /\ elegido = EleccionVacia
    /\ \E sep \in {"/", "\\"}, s \in {"/", "\\"}, final \in BOOLEAN,
          rel \in Relativas, c \in Remotos :
         /\ EsSep(s, sep)
         /\ ruta = [sep |-> sep,
                    base_dir |-> IF final THEN <<s, "a", s>> ELSE <<s, "a">>,
                    relativa |-> rel, config |-> c,
                    carpeta_local |-> <<>>, ruta_remota |-> <<>>]

\* lines 110-115 for one folder of the walk
Mapear ==
    /\ pc = "path"
    /\ LET carpeta == CarpetaDeWalk(ruta.base_dir, ruta.relativa, ruta.sep)
       IN ruta' = [ruta EXCEPT
              !.carpeta_local = carpeta,
              !.ruta_remota = RutaRemota(carpeta, ruta.base_dir,
                                         ruta.config, ruta.sep)]
    /\ pc' = "mapped"
    /\ UNCHANGED <<entorno, carpetas, idx, local, remote, nombre_fichero,
                   tamano_bytes, total_descargados, total_bytes_descargados,
                   total_eliminados, carpetas_con_error, paso, hist, poda,
                   arbol, elegido>>

PathSpec == InitRuta /\ [][Mapear]_vars

\* ------------------------------------- selection of the newest remote file
\* listings in any order, files with equal modification times among them
ListadosAtr ==
    UNION {{[i \in 1..k |-> [nombre |-> ns[i], size |-> zs[i], mtime |-> ts[i]]] :
               ns \in NombresDistintos(k), zs \in [1..k -> 1..MaxSize],
               ts \in [1..k -> 1..MaxRemote]} :
           k \in 0..MaxRemote}

\* main.py 125-130: nothing is selected from an empty listing, otherwise
\* the first descriptor
Seleccion(archivos) ==
    IF archivos = <<>> THEN Ninguno ELSE ArchivoReciente(archivos)

\* a max that keeps the last of the greatest
EsMayorOIgual(a, b) == a >= b

\* max(): a later element replaces the candidate only if its key is greater
EsMayor(a, b) == a > b

\* max(files, key=lambda f: f.st_mtime) from position i on, mejor being the
\* candidate so far
RECURSIVE MaxPorMtime(_, _, _)
MaxPorMtime(files, i, mejor) ==
    IF i > Len(files) THEN mejor
    ELSE IF EsMayor(files[i].mtime, mejor.mtime)
         THEN MaxPorMtime(files, i + 1, files[i])
         ELSE MaxPorMtime(files, i + 1, mejor)

\* files.py 50-68; falla: sftp.listdir_attr raises
fichero_mas_reciente(files, falla) ==
    IF falla THEN Ninguno
    ELSE IF files = <<>> THEN Ninguno
    ELSE MaxPorMtime(files, 2, files[1])

InitElegir ==
    /\ SinMain
    /\ pc = "select"
    /\ carpetas = <<>>
    /\ arbol = ArbolVacio
    /\ ruta = RutaVacia
    /\ \E l \in ListadosAtr, f \in BOOLEAN :
         elegido = [archivos |-> l, falla |-> f,
                    primero |-> Ninguno, maximo |-> Ninguno]

\* both selections applied to the same listing
Elegir ==
    /\ pc = "select"
    /\ elegido' = [elegido EXCEPT
           !.primero = Seleccion(elegido.archivos),
           !.maximo = fichero_mas_reciente(elegido.archivos, elegido.falla)]
    /\ pc' = "selected"
    /\ UNCHANGED <<entorno, carpetas, idx, local, remote, nombre_fichero,
                   tamano_bytes, total_descargados, total_bytes_descargados,
                   total_eliminados, carpetas_con_error, paso, hist, poda,
                   arbol, ruta>>

SelectSpec == InitElegir /\ [][Elegir]_vars

\* ------------------------------------------------------------------ claims
\* the pass of folder paso.carpeta has just ended
FinPaso == pc = "loop" /\ idx >= 1

\* the newest remote file is the only regular file of the folder
SoloElReciente ==
    RegularFiles(local[paso.carpeta]) = {paso.reciente.nombre}

\* listing ok and not empty, newest file already local or downloaded, no
\* exception escaped
PasoExitoso ==
    /\ FinPaso
    /\ paso.listado = "ok"
    /\ paso.descarga \in {"omitida", "ok"}
    /\ ~paso.excepcion

C4_ListadoFallido ==
    (paso.listado = "fallo") =>
        /\ pc \in {"loop", "summary", "end"}
        /\ carpetas_con_error = paso.err0 + 1
        /\ hist.listar[paso.carpeta] = 1
        /\ hist.descargar[paso.carpeta] = 0
        /\ hist.podar[paso.carpeta] = 0
        /\ local[paso.carpeta] = paso.ini
        /\ total_descargados = paso.desc0
        /\ total_bytes_descargados = paso.bytes0
        /\ total_eliminados = paso.elim0
        /\ ~paso.podado /\ paso.descarga = "no"

C4_Witness ==
    /\ FinPaso
    /\ paso.listado = "fallo"
    /\ idx = 2
    /\ RegularFiles(paso.ini) # {}
    /\ carpetas_con_error = 1
    /\ total_eliminados > 0

\* C5: once a pass is beyond the existence test, the download adapter has
\* been called for the folder exactly when no entry with the newest remote
\* name existed; when one existed it is kept as it was, whatever its size.
C5_DescargaSoloSiFalta ==
    (paso.listado = "ok" /\ pc \in {"download", "prune", "loop"}) =>
        /\ pc = "download" => ~Exists(paso.ini, paso.reciente.nombre)
        /\ pc # "download" =>
             /\ Exists(paso.ini, paso.reciente.nombre)
                   <=> hist.descargar[paso.carpeta] = 0
             /\ ~Exists(paso.ini, paso.reciente.nombre)
                   <=> hist.descargar[paso.carpeta] = 1
             /\ Exists(paso.ini, paso.reciente.nombre) =>
                   /\ paso.descarga = "omitida"
                   /\ local[paso.carpeta][paso.reciente.nombre]
                        = paso.ini[paso.reciente.nombre]

C5_Witness ==
    /\ FinPaso
    /\ paso.descarga = "omitida"
    /\ paso.ini[paso.reciente.nombre].size # paso.reciente.size
    /\ local[paso.carpeta][paso.reciente.nombre].size # paso.reciente.size
    /\ hist.descargar[paso.carpeta] = 0

\* C9 as stated: a folder with a successful non-empty listing that does not
\* end with the newest file as its only regular file had the folder-error
\* counter incremented during the pass.
C9_Original ==
    (FinPaso /\ paso.listado = "ok" /\ ~SoloElReciente) =>
        carpetas_con_error > paso.err0

\* C9 amended: such a folder either had an exception escape its pass, and
\* then the counter was incremented by 1, or its download was attempted and
\* failed, or a removal failed inside the pruner; the last two leave the
\* counter unchanged.
C9_EstadoParcial ==
    (FinPaso /\ paso.listado = "ok") =>
        /\ ~SoloElReciente =>
              \/ paso.excepcion
              \/ paso.descarga = "fallo"
              \/ paso.borrado_fallido
        /\ paso.excepcion <=> carpetas_con_error = paso.err0 + 1
        /\ ~paso.excepcion <=> carpetas_con_error = paso.err0

C9_Witness ==
    /\ FinPaso
    /\ paso.listado = "ok"
    /\ ~SoloElReciente
    /\ paso.excepcion
    /\ carpetas_con_error = paso.err0 + 1

\* C10: files_downloaded is the number of download calls that returned ok
\* and bytes_downloaded the sum of the sizes the remote descriptors of those
\* files report; a skipped or a failed download changes neither.
C10_Contadores ==
    (pc \notin {"setup", "discover", "raised", "returned"}) =>
        /\ total_descargados = hist.dl_ok
        /\ total_bytes_descargados = hist.dl_bytes
        /\ (FinPaso /\ paso.descarga \in {"omitida", "fallo", "no"}) =>
              /\ total_descargados = paso.desc0
              /\ total_bytes_descargados = paso.bytes0
        /\ (FinPaso /\ paso.descarga = "ok") =>
              /\ total_descargados = paso.desc0 + 1
              /\ total_bytes_descargados = paso.bytes0 + paso.reciente.size

C10_Witness ==
    /\ pc = "end"
    /\ total_descargados = 2
    /\ total_bytes_descargados = 3
    /\ hist.descargar[1] = 1
    /\ hist.descargar[2] = 1


\* observations of the call of eliminar_antiguos in PruneSpec
Podado == pc = "pruned"
AntesPoda == poda.antes[poda.carpeta]
DespuesPoda == local[poda.carpeta]
\* the stale files whose removal raises
FallanPoda == {n \in RegularFiles(AntesPoda) \ {poda.conservar} : n \in poda.fallan}

\* C3: in eliminar_antiguos a failed removal does not stop the processing of
\* the other entries: every other regular file that is not the one to keep
\* and whose removal does not fail is removed in the same call.
C3_BorradoFallidoNoAborta ==
    (Podado /\ poda.listdir_ok) =>
        \A n \in RegularFiles(AntesPoda) :
            (n # poda.conservar /\ n \notin poda.fallan) => ~Exists(DespuesPoda, n)

EstableAlInicio ==
    \A d \in Dirs \ {0} : Estable(hist.ini[d], remote[d])

\* C8: an execution that finds every folder holding the newest remote file
\* as its only regular file, the server listing what it listed to the
\* execution before, downloads nothing, removes nothing and leaves every
\* folder as it was.
C8_Idempotente ==
    EstableAlInicio =>
        /\ total_descargados = 0
        /\ total_bytes_descargados = 0
        /\ total_eliminados = 0
        /\ hist.dl_ok = 0
        /\ hist.borrados = 0
        /\ \A d \in Dirs : hist.descargar[d] = 0
        /\ local = hist.ini

C8_Witness ==
    /\ EstableAlInicio
    /\ pc = "end"
    /\ hist.podar[1] = 1
    /\ hist.podar[2] = 1
    /\ carpetas_con_error = 0
    /\ local = hist.ini
    /\ local[1][remote[1][1].nombre].size # remote[1][1].size
    /\ Len(remote[2]) = 2

\* C6: once folder discovery has returned, whatever fails in the passes,
\* every discovered folder reaches the end of its pass, in the order of
\* discovery, and the execution reaches the end of the summary.
C6_TodasProcesadas ==
    (pc = "loop" /\ idx = 0) ~>
        (pc = "end" /\ hist.visitadas = carpetas /\ hist.resumenes = 1)

C6_Witness ==
    /\ pc = "end"
    /\ hist.visitadas = carpetas
    /\ Len(carpetas) = 2
    /\ carpetas_con_error = 2
    /\ hist.resumenes = 1

\* -------------------------------------------------------------- C11
\* main() is over: no statement of it is left to execute
Terminado == pc \in {"end", "raised", "returned"}

\* the claim as stated: every way main() ends has emitted the summary once
C11_Original == Terminado => hist.resumenes = 1

\* C11: the summary is emitted exactly once, as the last thing of the
\* execution, by every execution that gets past start-up, whatever happened
\* in its folders; an execution stopped at start-up (missing file: exception;
\* invalid base directory: return) ends without the summary, and those are
\* the only executions that do
C11_ResumenUnaVez ==
    /\ hist.resumenes = (IF pc = "end" THEN 1 ELSE 0)
    /\ pc = "raised" => ~entorno.config \/ ~entorno.cred
    /\ pc = "returned" => entorno.config /\ entorno.cred /\ ~entorno.base
    /\ pc = "end" => entorno.config /\ entorno.cred /\ entorno.base

\* the summary after an execution in which a folder failed
C11_Witness ==
    /\ pc = "end"
    /\ hist.resumenes = 1
    /\ carpetas_con_error >= 1

\* -------------------------------------------------------------- C12
SetupFallido == ~entorno.config \/ ~entorno.cred \/ ~entorno.base

\* C12: when a configuration file is missing or directorio_local is not a
\* valid directory, main() never gets beyond start-up: no folder is
\* discovered, no listing, download or pruning is called, and every local
\* folder keeps the content it had
C12_SetupAborta ==
    SetupFallido =>
        /\ pc \in {"setup", "raised", "returned"}
        /\ carpetas = <<>>
        /\ idx = 0
        /\ \A d \in Dirs : /\ hist.listar[d] = 0
                           /\ hist.descargar[d] = 0
                           /\ hist.podar[d] = 0
        /\ hist.visitadas = <<>>
        /\ local = hist.ini

\* main() has returned on an invalid base directory and the stale files of
\* the folders are still there
C12_Witness ==
    /\ pc = "returned"
    /\ ~entorno.base
    /\ \E d \in Dirs : RegularFiles(local[d]) # {}

\* -------------------------------------------------------------- C13
\* C13: a listing that succeeds with no descriptor ends the pass at once:
\* no download and no pruning is called for the folder, its content stays
\* as it was, stale files included, and none of the four counters changes
C13_ListadoVacio ==
    paso.listado = "vacio" =>
        /\ pc \in {"loop", "summary", "end"}
        /\ ~paso.excepcion
        /\ hist.listar[paso.carpeta] = 1
        /\ hist.descargar[paso.carpeta] = 0
        /\ hist.podar[paso.carpeta] = 0
        /\ paso.descarga = "no"
        /\ ~paso.podado
        /\ local[paso.carpeta] = paso.ini
        /\ carpetas_con_error = paso.err0
        /\ total_descargados = paso.desc0
        /\ total_bytes_descargados = paso.bytes0
        /\ total_eliminados = paso.elim0

\* the pass of a folder that holds files ended on an empty listing
C13_Witness ==
    /\ FinPaso
    /\ paso.listado = "vacio"
    /\ RegularFiles(local[paso.carpeta]) # {}

\* -------------------------------------------------------------- C14
\* C14: an exception that escapes a step of the pass ends the pass there:
\* the folder-error counter goes up by one, the loop is back at the for
\* statement, and no later step is executed, so the folder is neither
\* pruned nor changed and the other counters keep their values
C14_ExcepcionCorta ==
    paso.excepcion =>
        /\ pc \in {"loop", "summary", "end"}
        /\ carpetas_con_error = paso.err0 + 1
        /\ ~paso.podado
        /\ hist.podar[paso.carpeta] = 0
        /\ paso.listado = "no" => hist.descargar[paso.carpeta] = 0
        /\ paso.descarga = "no"
        /\ local[paso.carpeta] = paso.ini
        /\ total_descargados = paso.desc0
        /\ total_bytes_descargados = paso.bytes0
        /\ total_eliminados = paso.elim0

\* the download raised in a folder that holds stale files: they stay
C14_Witness ==
    /\ FinPaso
    /\ paso.excepcion
    /\ paso.listado = "ok"
    /\ hist.descargar[paso.carpeta] = 1
    /\ RegularFiles(local[paso.carpeta]) # {}

\* -------------------------------------------------------------- C17
\* the claim as stated: the listing of every folder whose pass is over has
\* been attempted exactly once, its download at most once
C17_Original ==
    /\ \A d \in Dirs : hist.listar[d] <= 1 /\ hist.descargar[d] <= 1
    /\ \A i \in 1..Len(hist.visitadas) : hist.listar[hist.visitadas[i]] = 1

\* C17: no listing and no download is attempted a second time for a
\* folder, whatever the first attempt gave; a download is attempted only
\* after the listing; the listing of a folder whose pass is over has been
\* attempted once, unless an exception ended the pass before the listing
C17_SinReintento ==
    /\ \A d \in Dirs : /\ hist.listar[d] <= 1
                       /\ hist.descargar[d] <= hist.listar[d]
    /\ hist.listar[0] = 0
    /\ FinPaso => \/ hist.listar[paso.carpeta] = 1
                  \/ /\ paso.excepcion
                     /\ paso.listado = "no"
                     /\ hist.listar[paso.carpeta] = 0
    /\ FinPaso /\ ~paso.excepcion => hist.listar[paso.carpeta] = 1
    /\ pc = "end" =>
         \A i \in 1..Len(carpetas) : hist.descargar[carpetas[i]] <= 1

\* the execution is over; the listing failed in one folder and the
\* download failed in the other; each was attempted once
C17_Witness ==
    /\ pc = "end"
    /\ carpetas_con_error = 1
    /\ paso.descarga = "fallo"
    /\ \A i \in 1..Len(carpetas) : hist.listar[carpetas[i]] = 1

\* -------------------------------------------------------------- C19
\* C19: over one pass the folder-error counter goes up by one when the
\* listing failed or an exception escaped, and stays otherwise, also when
\* the download or a deletion failed; the counter never exceeds the number
\* of folders whose pass is over, and the download counter never exceeds
\* the number of folders the loop has taken
C19_ErroresPorCarpeta ==
    /\ FinPaso =>
         carpetas_con_error =
             paso.err0 + (IF paso.listado = "fallo" \/ paso.excepcion
                          THEN 1 ELSE 0)
    /\ pc \in {"map", "list", "exists", "download", "prune"} =>
         carpetas_con_error = paso.err0
    /\ carpetas_con_error <= Len(hist.visitadas)
    /\ Len(hist.visitadas) <= idx
    /\ idx <= Len(carpetas)
    /\ total_descargados <= idx

\* a pass in which the download failed and then a deletion failed: the
\* counter has not moved
C19_Witness ==
    /\ FinPaso
    /\ paso.descarga = "fallo"
    /\ paso.borrado_fallido
    /\ carpetas_con_error = paso.err0
    /\ idx = 2
    /\ paso.err0 = 1

\* -------------------------------------------------------------- C20
\* regular files in the local tree
NumFicheros(l) ==
    Cardinality(RegularFiles(l[0])) + Cardinality(RegularFiles(l[1]))
        + Cardinality(RegularFiles(l[2]))

\* C20: total_eliminados is the number of regular files that have left the
\* local tree (files at the start, plus files the downloads created, minus
\* files now), in every state, so also in the summary and also when
\* os.remove raised in the middle of a call of eliminar_antiguos; over one
\* pass it grows by what that call removed from the folder
C20_CuentaEliminados ==
    pc \notin {"setup", "raised", "returned", "discover"} =>
        /\ total_eliminados = NumFicheros(hist.ini) + hist.dl_ok - NumFicheros(local)
        /\ total_eliminados = hist.borrados
        /\ FinPaso =>
             total_eliminados - paso.elim0 =
                 Cardinality(RegularFiles(paso.ini))
                   + (IF paso.descarga = "ok" THEN 1 ELSE 0)
                   - Cardinality(RegularFiles(local[paso.carpeta]))

\* os.remove raised after one file had been removed and before another
\* was: the call counted the one
C20_Witness ==
    /\ FinPaso
    /\ paso.borrado_fallido
    /\ total_eliminados = paso.elim0 + 1
    /\ RegularFiles(local[paso.carpeta]) \ {paso.conservar} # {}

\* -------------------------------------------------------------- C15
\* the directories of the tree without a child directory
Terminales(a) == {d \in 0..a.n : ~\E c \in 1..a.n : a.padre[c] = d}

\* C15: for every tree, listar_subcarpetas returns the directories that
\* have no child directory, the root included when it has none, each one
\* once, whether they hold files or not, and no directory that has a child
C15_CarpetasFinales ==
    pc = "walked" =>
        /\ {carpetas[i] : i \in 1..Len(carpetas)} = Terminales(arbol)
        /\ \A i, j \in 1..Len(carpetas) : i # j => carpetas[i] # carpetas[j]
        /\ \A i \in 1..Len(carpetas) :
             \A c \in 1..arbol.n : arbol.padre[c] # carpetas[i]

\* a tree two levels deep whose two final folders are an empty one and one
\* with files, below a directory that holds files and is not returned
C15_Witness ==
    /\ pc = "walked"
    /\ arbol.n >= 3
    /\ \E c \in 1..arbol.n : arbol.padre[c] # 0
    /\ Len(carpetas) = 2
    /\ \E i, j \in 1..2 : /\ carpetas[i] \in arbol.ficheros
                          /\ carpetas[j] \notin arbol.ficheros
    /\ 0 \in arbol.ficheros

\* -------------------------------------------------------------- C16
\* directorio_remoto, or its default
RaizRemota == IF ruta.config.presente THEN ruta.config.valor ELSE <<"/">>
\* the remote root followed by one "/"
RaizConBarra ==
    IF RaizRemota[Len(RaizRemota)] = "/" THEN RaizRemota
    ELSE RaizRemota \o <<"/">>
\* the names of the folder below directorio_local, with "/" between them
RECURSIVE ConBarras(_)
ConBarras(rel) ==
    IF Len(rel) <= 1 THEN rel
    ELSE <<rel[1], "/">> \o ConBarras(Tail(rel))
SinBarraInvertida(p) == \A k \in 1..Len(p) : p[k] # "\\"

\* the claim as stated: for every folder discovery returns, the remote path
\* is the remote root followed by the relative components of the folder
C16_Original ==
    pc = "mapped" =>
        /\ ruta.ruta_remota =
               IF ruta.relativa = <<>> THEN RaizRemota
               ELSE RaizConBarra \o ConBarras(ruta.relativa)
        /\ SinBarraInvertida(ruta.ruta_remota)

\* C16: for a folder below directorio_local the remote path is the remote
\* root, "/" by default, followed by the names of the folder relative to
\* directorio_local with "/" between them; for directorio_local itself it
\* is the remote root followed by "."; it never holds a backslash and does
\* not depend on the separator of the host nor on a trailing separator of
\* directorio_local
C16_RutaRemota ==
    pc = "mapped" =>
        /\ ruta.relativa # <<>> =>
               ruta.ruta_remota = RaizConBarra \o ConBarras(ruta.relativa)
        /\ ruta.relativa = <<>> =>
               ruta.ruta_remota = RaizConBarra \o <<".">>
        /\ SinBarraInvertida(ruta.ruta_remota)

\* on Windows, /a/ with a trailing separator, folder \a\b\c, remote root /r:
\* the result is /r/b/c
C16_Witness ==
    /\ pc = "mapped"
    /\ ruta.sep = "\\"
    /\ ruta.base_dir = <<"\\", "a", "\\">>
    /\ ruta.carpeta_local = <<"\\", "a", "\\", "b", "\\", "c">>
    /\ ruta.config = [presente |-> TRUE, valor |-> <<"/", "r">>]
    /\ ruta.ruta_remota = <<"/", "r", "/", "b", "/", "c">>

\* -------------------------------------------------------------- C18
\* newest first
OrdenadoReciente(archivos) ==
    \A i, j \in 1..Len(archivos) :
        i < j => archivos[i].mtime >= archivos[j].mtime

\* C18: on a listing sorted newest first main() selects element 0, whose
\* modification time is at least that of every other descriptor; from an
\* empty listing nothing is selected; fichero_mas_reciente returns the same
\* descriptor as main() selects, also when several files share the greatest
\* modification time, and nothing from an empty listing or when the listing
\* call raises
C18_MasReciente ==
    pc = "selected" /\ OrdenadoReciente(elegido.archivos) =>
        LET a == elegido.archivos IN
        /\ a = <<>> => elegido.primero = Ninguno /\ elegido.maximo = Ninguno
        /\ a # <<>> =>
             /\ elegido.primero = a[1]
             /\ \A j \in 1..Len(a) : elegido.primero.mtime >= a[j].mtime
             /\ ~elegido.falla => elegido.maximo = elegido.primero
        /\ elegido.falla => elegido.maximo = Ninguno

\* two files with the same, greatest, modification time: both selections
\* give the first
C18_Witness ==
    /\ pc = "selected"
    /\ ~elegido.falla
    /\ Len(elegido.archivos) >= 2
    /\ OrdenadoReciente(elegido.archivos)
    /\ elegido.archivos[1].mtime = elegido.archivos[2].mtime
    /\ elegido.primero = elegido.archivos[1]
    /\ elegido.maximo = elegido.archivos[1]
====
